---- MODULE Spec2Model ----
(***************************************************************************)
(* Model of the EthParser tracking engine (internal/parser/parser.go):    *)
(* the engine state guarded by p.mu, the construction-time bootstrap, the *)
(* height-refresh task, the transaction-scan task (one step per lock      *)
(* section or collaborator call), Subscribe, and the in-memory Store.     *)
(***************************************************************************)
EXTENDS Integers, Sequences, FiniteSets, TLC

(***************************************************************************)
(* Bounds of the model.                                                    *)
(***************************************************************************)
\* the Chain Client reports the heights chainFloor .. chainFloor + MaxAdvance
MaxAdvance == 2
\* number of ticks of the transaction-scan task on the young chain
MaxScans == 3
\* number of ticks of the transaction-scan task on the old chain
MaxOldScans == 1
\* number of block fetches that fail
MaxFetchErrors == 1
\* failed block fetches on the old chain
MaxOldFetchErrors == 0
\* number of ticks of the transaction-scan task when the tasks can be cancelled
MaxLifeScans == 1
\* number of ticks of the transaction-scan task that are counted, and during
\* which the reported height can change, when ticks never stop
MaxProgressScans == 2

(***************************************************************************)
(* Program constants.                                                      *)
(***************************************************************************)
initialLookBackBlocksCount == 10

\* the addresses external callers subscribe
Addresses == {"0x1", "0x2"}

(***************************************************************************)
(* Hexadecimal strings, as sequences of one-character strings.            *)
(***************************************************************************)
HexChars == <<"0", "1", "2", "3", "4", "5", "6", "7",
              "8", "9", "a", "b", "c", "d", "e", "f">>

\* the digits of fmt.Sprintf("%x", n)
RECURSIVE HexDigits(_)
HexDigits(n) ==
    IF n < 16 THEN <<HexChars[n + 1]>>
    ELSE Append(HexDigits(n \div 16), HexChars[(n % 16) + 1])

\* fmt.Sprintf("0x%x", n)
FormatHex(n) == <<"0", "x">> \o HexDigits(n)

IsHexChar(c) == \E k \in 1..16 : HexChars[k] = c

HexValue(c) == (CHOOSE k \in 1..16 : HexChars[k] = c) - 1

\* strconv.ParseInt(s, 16, 64) on a string of hex digits: [ok, value]
RECURSIVE ParseDigits(_, _)
ParseDigits(s, acc) ==
    IF s = <<>> THEN acc
    ELSE ParseDigits(Tail(s), acc * 16 + HexValue(Head(s)))

ParseInt16(s) ==
    IF s = <<>> \/ \E k \in 1..Len(s) : ~IsHexChar(s[k])
    THEN [ok |-> FALSE, value |-> 0]
    ELSE [ok |-> TRUE, value |-> ParseDigits(s, 0)]

\* the slice expression hexNumber[2:] panics for a string shorter than two bytes
SlicePanics(hexNumber) == Len(hexNumber) < 2

\* convertHexNumberToDecimal: parses hexNumber[2:]; (-1, err) on failure
convertHexNumberToDecimal(hexNumber) ==
    IF SlicePanics(hexNumber) THEN [err |-> FALSE, value |-> 0, panic |-> TRUE]
    ELSE LET r == ParseInt16(SubSeq(hexNumber, 3, Len(hexNumber)))
         IN  IF r.ok THEN [err |-> FALSE, value |-> r.value, panic |-> FALSE]
             ELSE [err |-> TRUE, value |-> -1, panic |-> FALSE]

(***************************************************************************)
(* The chain served by the Chain Client.                                   *)
(***************************************************************************)
\* a Transaction as json.Unmarshal leaves it: BlockNumberDecimal is not on the wire
Tx(hash, from, to) ==
    [Hash |-> hash, From |-> from, To |-> to, BlockNumberDecimal |-> 0]

\* the transactions of the block at height h, as they come off the wire;
\* heights 1 and 2 are the blocks of TestEthParser
ChainTransactions(h) ==
    CASE h % 4 = 1 -> <<Tx(16 * h, "0x1", "0x2")>>
      [] h % 4 = 2 -> <<Tx(16 * h, "0x2", "0x3")>>
      [] h % 4 = 3 -> <<Tx(16 * h, "0x3", "0x4"),
                        Tx(16 * h + 1, "0x1", "0x1"),
                        Tx(16 * h + 2, "0x2", "0x1")>>
      [] OTHER     -> <<Tx(16 * h, "0x3", "0x4")>>

\* the Block decoded from a successful eth_getBlockByNumber response
ChainBlock(h) == [Number |-> FormatHex(h), Transactions |-> ChainTransactions(h)]

\* the lowest height the Chain Client reports: on a young chain, and on a
\* chain about as old as the look-back
YoungFloor == 0

OldFloor == initialLookBackBlocksCount - 1

\* the highest height of any chain
MaxHeight == OldFloor + MaxAdvance

\* the results a successful eth_blockNumber request can carry
HeightResults(floor) == {FormatHex(h) : h \in floor..(floor + MaxAdvance)}

\* every address that occurs on the chain
AllAddresses == {"0x1", "0x2", "0x3", "0x4"}

VARIABLES
    chainFloor,             \* the chain behind the Chain Client: YoungFloor or OldFloor
    phase,                  \* "new" before NewEthParser ran, then "running";
                            \* "crashed" after a panic ended the process
    currentBlock,           \* p.currentBlock
    lastProcessedBlock,     \* p.lastProcessedBlock
    firstProcessedBlock,    \* p.lastProcessedBlock as NewEthParser left it
    subscriptions,          \* p.subscriptions (its key set)
    data,                   \* MemoryStorage.data
    scan,                   \* the scan task: position and locals of fetchTransactions
    notifyLog,              \* per address, the lists passed to p.notify, in order
    saveLog,                \* per address, the lists passed to SaveTransactions, in order
    nScans,                 \* ticks of the scan task so far
    fetched,                \* per height, the number of getBlockByNumber calls
    subscribeRet,           \* per address, the number of Subscribe calls that
                            \* returned true
    nFetchErrors,           \* failed block fetches so far
    cancelled,              \* cancelCtx.Done() is closed
    refresh,                \* the height-refresh task: "select" at its select,
                            \* "request" inside SendRequest, "stopped" after return
    shutdown,               \* the caller of WaitForShutdown: where it is, and
                            \* whether a call of it has returned
    mu,                     \* p.mu
    failedAt,               \* the heights of the block fetches that failed
    client,                 \* the Chain Client: "conforming" answers with results
                            \* of the JSON-RPC shapes, "arbitrary" with any
    storage,                \* the Storage handed to NewEthParser: "memory" is a
                            \* MemoryStorage, "failing" one whose
                            \* SaveTransactions can return an error
    observed                \* where an observer keeps them: passEnd, the highest
                            \* end height of the passes that took their snapshot,
                            \* and since[a], passEnd as it was when Subscribe(a)
                            \* returned true (-1: no pass, not subscribed)

vars == <<chainFloor, phase, currentBlock, lastProcessedBlock,
          firstProcessedBlock, subscriptions, data, scan, notifyLog, saveLog,
          nScans, fetched, subscribeRet, nFetchErrors, cancelled, refresh,
          shutdown, mu, failedAt, client, storage, observed>>

\* the scan task between two ticks.  pending: the keys the range loop over
\* transactionsForAddresses has still to visit; fetchedOk: the heights of this
\* pass whose block was fetched and decoded
ScanIdle ==
    [pc |-> "idle", subscribedAddresses |-> {}, startBlock |-> 0,
     currentBlock |-> 0, i |-> 0, transactionsForAddresses |-> <<>>,
     pending |-> {}, address |-> "", fetchedOk |-> {}]

\* the struct literal of NewEthParser and NewMemoryStorage
EngineInit ==
    /\ chainFloor \in {YoungFloor, OldFloor}
    /\ phase = "new"
    /\ currentBlock = 0
    /\ lastProcessedBlock = 0
    /\ firstProcessedBlock = 0
    /\ subscriptions = {}
    /\ data = [a \in AllAddresses |-> <<>>]
    /\ scan = ScanIdle
    /\ notifyLog = [a \in AllAddresses |-> <<>>]
    /\ saveLog = [a \in AllAddresses |-> <<>>]
    /\ nScans = 0
    /\ fetched = [h \in 1..MaxHeight |-> 0]
    /\ subscribeRet = [a \in Addresses |-> 0]
    /\ nFetchErrors = 0
    /\ cancelled = FALSE
    /\ refresh = "select"
    /\ shutdown = [pc |-> "idle", returned |-> FALSE]
    /\ mu = "unlocked"
    /\ failedAt = {}
    /\ observed = [passEnd |-> -1, since |-> [a \in Addresses |-> -1]]

\* the engine behind a Chain Client that keeps to the JSON-RPC result shapes
Init == EngineInit /\ client = "conforming" /\ storage = "memory"

\* a lock section that never unlocks
LockSectionKept(m) == "locked"

\* p.mu after a section p.mu.Lock() ... p.mu.Unlock()
LockSection(m) == "unlocked"

(***************************************************************************)
(* Height refresh.                                                         *)
(***************************************************************************)
\* results of eth_blockNumber that are no height: a result that is no string
\* (null), the empty string, "0x" and "0xg"
MalformedHeightResponses ==
    {[err |-> FALSE, isString |-> FALSE, result |-> <<>>],
     [err |-> FALSE, isString |-> TRUE, result |-> <<>>],
     [err |-> FALSE, isString |-> TRUE, result |-> <<"0", "x">>],
     [err |-> FALSE, isString |-> TRUE, result |-> <<"0", "x", "g">>]}

\* the responses of the Chain Client to eth_blockNumber
HeightResponses ==
    {[err |-> TRUE, isString |-> FALSE, result |-> <<>>]} \cup
    {[err |-> FALSE, isString |-> TRUE, result |-> r] :
        r \in HeightResults(chainFloor)} \cup
    (IF client = "arbitrary" THEN MalformedHeightResponses ELSE {})

\* updateCurrentBlock panics: in the type assertion resp.Result.(string) or in
\* the slice expression of convertHexNumberToDecimal
updateCurrentBlockPanics(resp) ==
    ~resp.err /\ (~resp.isString \/ SlicePanics(resp.result))

\* updateCurrentBlock storing the zero value when the request fails
updateCurrentBlockZeroOnError(cur, resp) ==
    IF resp.err THEN 0
    ELSE LET d == convertHexNumberToDecimal(resp.result)
         IN  IF d.err THEN cur ELSE d.value

\* updateCurrentBlock: the value of p.currentBlock after the call
updateCurrentBlock(cur, resp) ==
    IF resp.err THEN cur
    ELSE LET d == convertHexNumberToDecimal(resp.result)
         IN  IF d.err THEN cur ELSE d.value

\* initializeCurrentBlock without the guard against a negative result
initializeCurrentBlockUnclamped(last, cur) ==
    IF last = 0 THEN cur - initialLookBackBlocksCount ELSE last

\* initializeCurrentBlock: p.lastProcessedBlock from the refreshed p.currentBlock
initializeCurrentBlock(last, cur) ==
    IF last = 0
    THEN IF cur - initialLookBackBlocksCount < 0 THEN 0
         ELSE cur - initialLookBackBlocksCount
    ELSE last

\* NewEthParser: the bootstrap, then the two background tasks start
NewEthParser ==
    /\ phase = "new"
    /\ \E resp \in HeightResponses :
         LET cur == updateCurrentBlock(currentBlock, resp)
         IN  IF updateCurrentBlockPanics(resp)
             THEN /\ phase' = "crashed"
                  /\ UNCHANGED <<currentBlock, lastProcessedBlock,
                                 firstProcessedBlock>>
             ELSE /\ phase' = "running"
                  /\ currentBlock' = cur
                  /\ lastProcessedBlock' =
                       initializeCurrentBlock(lastProcessedBlock, cur)
                  /\ firstProcessedBlock' =
                       initializeCurrentBlock(lastProcessedBlock, cur)
    /\ UNCHANGED <<client, storage, observed, chainFloor, subscriptions, data, scan, notifyLog, saveLog,
                   nScans, fetched, subscribeRet, nFetchErrors>>
    /\ mu = "unlocked"
    /\ mu' = LockSection(mu)
    /\ UNCHANGED <<cancelled, refresh, shutdown, failedAt>>

\* GetCurrentBlock: p.currentBlock, read under p.mu
GetCurrentBlock(cur) == cur

\* updateCurrentBlock gets as far as its lock section
ReachesStore(resp) ==
    /\ ~resp.err
    /\ ~updateCurrentBlockPanics(resp)
    /\ ~convertHexNumberToDecimal(resp.result).err

\* one tick of the height-refresh task
RefreshTick ==
    /\ phase = "running"
    /\ refresh = "select"
    /\ \E resp \in HeightResponses :
         LET panics == updateCurrentBlockPanics(resp)
             stores == ReachesStore(resp)
         IN  /\ stores => mu = "unlocked"
             /\ phase' = IF panics THEN "crashed" ELSE phase
             /\ currentBlock' = IF panics THEN currentBlock
                                ELSE updateCurrentBlock(currentBlock, resp)
             /\ mu' = IF stores THEN LockSection(mu) ELSE mu
    /\ UNCHANGED <<client, storage, observed, chainFloor, lastProcessedBlock, firstProcessedBlock,
                   subscriptions, data, scan, notifyLog, saveLog, nScans,
                   fetched, subscribeRet, nFetchErrors>>
    /\ UNCHANGED <<cancelled, refresh, shutdown, failedAt>>

(***************************************************************************)
(* Subscribe.                                                              *)
(***************************************************************************)
\* Subscribe without the test for an address already present
SubscribeResultUnchecked(subs, address) ==
    [ret |-> TRUE, subscriptions |-> subs \cup {address}]

\* Subscribe making a new map for the address it adds
SubscribeResultReplacing(subs, address) ==
    IF address \in subs
    THEN [ret |-> FALSE, subscriptions |-> subs]
    ELSE [ret |-> TRUE, subscriptions |-> {address}]

\* Subscribe under p.mu: the value returned and p.subscriptions afterwards
SubscribeResult(subs, address) ==
    IF address \in subs
    THEN [ret |-> FALSE, subscriptions |-> subs]
    ELSE [ret |-> TRUE, subscriptions |-> subs \cup {address}]

\* a call of Subscribe
SubscribeCall(address) ==
    /\ phase = "running"
    /\ LET r == SubscribeResult(subscriptions, address)
       IN  /\ subscriptions' = r.subscriptions
           /\ subscribeRet' =
                IF r.ret THEN [subscribeRet EXCEPT ![address] = @ + 1]
                ELSE subscribeRet
    /\ UNCHANGED <<client, storage, chainFloor, phase, currentBlock, lastProcessedBlock,
                   firstProcessedBlock, data, scan, notifyLog, saveLog, nScans,
                   fetched, nFetchErrors>>
    /\ mu = "unlocked"
    /\ mu' = LockSection(mu)
    /\ UNCHANGED <<cancelled, refresh, shutdown, failedAt>>

Subscribe(address) == SubscribeCall(address) /\ UNCHANGED observed

(***************************************************************************)
(* Transaction scan.                                                       *)
(***************************************************************************)
\* the results of getBlockByNumber(h): an error (of the request, or a result
\* that is no object or does not decode), the block, a block whose number
\* field does not parse and, from an arbitrary client, a block without a number
BlockResponses(h) ==
    {[err |-> TRUE, block |-> [Number |-> <<>>, Transactions |-> <<>>]],
     [err |-> FALSE, block |-> ChainBlock(h)],
     [err |-> FALSE, block |-> [ChainBlock(h) EXCEPT !.Number = <<"0", "x">>]]}
    \cup
    (IF client = "arbitrary"
     THEN {[err |-> FALSE, block |-> [ChainBlock(h) EXCEPT !.Number = <<>>]]}
     ELSE {})

\* append(m[k], v) on a map that holds only the keys written so far
MapAppend(m, k, v) ==
    IF k \in DOMAIN m THEN [m EXCEPT ![k] = Append(@, v)]
    ELSE m @@ (k :> <<v>>)

\* the loop body recording a transaction under its sender only
MatchTransactionSenderOnly(m, tx0, subscribedAddresses, blockNumberDecimal) ==
    IF tx0.From \in subscribedAddresses
    THEN MapAppend(m, tx0.From,
                   [tx0 EXCEPT !.BlockNumberDecimal = blockNumberDecimal])
    ELSE m

\* the loop body recording a transaction under its recipient, subscribed or not
MatchTransactionAnyRecipient(m, tx0, subscribedAddresses, blockNumberDecimal) ==
    IF tx0.From \in subscribedAddresses \/ tx0.To \in subscribedAddresses
    THEN LET tx == [tx0 EXCEPT !.BlockNumberDecimal = blockNumberDecimal]
             m1 == IF tx.From \in subscribedAddresses
                   THEN MapAppend(m, tx.From, tx) ELSE m
         IN  MapAppend(m1, tx.To, tx)
    ELSE m

\* the loop body recording a transaction once under an address that is both
\* its sender and its recipient
MatchTransactionOncePerAddress(m, tx0, subscribedAddresses, blockNumberDecimal) ==
    IF tx0.From \in subscribedAddresses \/ tx0.To \in subscribedAddresses
    THEN LET tx == [tx0 EXCEPT !.BlockNumberDecimal = blockNumberDecimal]
             m1 == IF tx.From \in subscribedAddresses
                   THEN MapAppend(m, tx.From, tx) ELSE m
         IN  IF tx.To \in subscribedAddresses /\ tx.To # tx.From
             THEN MapAppend(m1, tx.To, tx) ELSE m1
    ELSE m

\* the body of the loop over block.Transactions for one transaction
MatchTransaction(m, tx0, subscribedAddresses, blockNumberDecimal) ==
    IF tx0.From \in subscribedAddresses \/ tx0.To \in subscribedAddresses
    THEN LET tx == [tx0 EXCEPT !.BlockNumberDecimal = blockNumberDecimal]
             m1 == IF tx.From \in subscribedAddresses
                   THEN MapAppend(m, tx.From, tx) ELSE m
         IN  IF tx.To \in subscribedAddresses
             THEN MapAppend(m1, tx.To, tx) ELSE m1
    ELSE m

\* the loop over block.Transactions, from the map m on
RECURSIVE MatchLoop(_, _, _, _)
MatchLoop(m, txs, subscribedAddresses, blockNumberDecimal) ==
    IF txs = <<>> THEN m
    ELSE MatchLoop(
             MatchTransaction(m, Head(txs), subscribedAddresses, blockNumberDecimal),
             Tail(txs), subscribedAddresses, blockNumberDecimal)

\* the loop started from a map that holds a group for every subscribed address
MatchTransactionsPrefilled(txs, subscribedAddresses, blockNumberDecimal) ==
    MatchLoop([a \in subscribedAddresses |-> <<>>], txs, subscribedAddresses,
              blockNumberDecimal)

\* the loop consulting p.subscriptions itself instead of the copy of the pass
MatchTransactionsLive(txs, subscribedAddresses, blockNumberDecimal) ==
    MatchLoop(<<>>, txs, subscriptions, blockNumberDecimal)

\* transactionsForAddresses after the loop over block.Transactions
MatchTransactions(txs, subscribedAddresses, blockNumberDecimal) ==
    MatchLoop(<<>>, txs, subscribedAddresses, blockNumberDecimal)

\* the window of a pass, read under p.mu
StartBlock(last) == last + 1

EndBlock(cur) == cur

\* SaveTransactions replacing the stored list instead of appending to it
SaveTransactionsOverwrite(d, address, transactions) ==
    [d EXCEPT ![address] = transactions]

\* SaveTransactions appending the first transaction of the list only
SaveTransactionsFirstOnly(d, address, transactions) ==
    [d EXCEPT ![address] = Append(@, Head(transactions))]

\* MemoryStorage.SaveTransactions
SaveTransactions(d, address, transactions) ==
    [d EXCEPT ![address] = @ \o transactions]

\* MemoryStorage.GetTransactions, which EthParser.GetTransactions passes on:
\* the stored list, empty for a key the map does not hold
GetTransactions(d, address) == d[address]

\* the pass writing the p.currentBlock in force when it ends
PassResultInForce(sc) == currentBlock

\* the value written to p.lastProcessedBlock when the pass ends
PassResult(sc) == sc.currentBlock

\* a select that is also reached between two heights of a pass
AtSelectOrBetweenHeights(sc) == sc.pc \in {"idle", "loop"}

\* a tick that is taken whether or not fetchTransactions has returned
AtSelectOrBusy(sc) == sc.pc \in {"idle", "loop", "notify", "save"}

\* the scan goroutine is at its select: fetchTransactions is called in the
\* goroutine itself, which takes no tick before the call has returned
AtSelect(sc) == sc.pc = "idle"

\* the select of the scan task takes ticker.C: fetchTransactions takes its
\* snapshot under p.mu
TakeSnapshot ==
    /\ phase = "running"
    /\ AtSelect(scan)
    /\ scan' = [pc |-> "loop",
                subscribedAddresses |-> subscriptions,
                startBlock |-> StartBlock(lastProcessedBlock),
                currentBlock |-> EndBlock(currentBlock),
                i |-> StartBlock(lastProcessedBlock),
                transactionsForAddresses |-> <<>>,
                pending |-> {}, address |-> "", fetchedOk |-> {}]
    /\ UNCHANGED <<client, storage, chainFloor, phase, currentBlock, lastProcessedBlock,
                   firstProcessedBlock, subscriptions, data, notifyLog, saveLog,
                   fetched, subscribeRet, nFetchErrors>>
    /\ mu = "unlocked"
    /\ mu' = LockSection(mu)
    /\ UNCHANGED <<cancelled, refresh, shutdown, failedAt>>

\* a tick of the scan task, as long as ticks are counted
ScanTick ==
    /\ nScans < (IF chainFloor = YoungFloor THEN MaxScans ELSE MaxOldScans)
    /\ TakeSnapshot
    /\ nScans' = nScans + 1
    /\ UNCHANGED observed

\* one iteration of the loop over heights, up to the range loop over the groups
ScanFetch ==
    /\ phase = "running"
    /\ scan.pc = "loop"
    /\ scan.i <= scan.currentBlock
    /\ \E resp \in BlockResponses(scan.i) :
         LET d == convertHexNumberToDecimal(resp.block.Number)
             panics == ~resp.err /\ d.panic
             failed == ~panics /\ (resp.err \/ d.err)
             m == IF failed \/ panics THEN <<>>
                  ELSE MatchTransactions(resp.block.Transactions,
                                         scan.subscribedAddresses, d.value)
         IN  /\ failed => nFetchErrors < (IF chainFloor = YoungFloor
                                          THEN MaxFetchErrors
                                          ELSE MaxOldFetchErrors)
             /\ phase' = IF panics THEN "crashed" ELSE phase
             /\ nFetchErrors' = IF failed THEN nFetchErrors + 1 ELSE nFetchErrors
             /\ failedAt' = IF failed THEN failedAt \cup {scan.i} ELSE failedAt
             /\ scan' = IF panics THEN scan
                        ELSE IF failed THEN [scan EXCEPT !.i = @ + 1]
                        ELSE IF DOMAIN m = {}
                        THEN [scan EXCEPT !.i = @ + 1,
                                          !.fetchedOk = @ \cup {scan.i}]
                        ELSE [scan EXCEPT !.pc = "notify",
                                          !.transactionsForAddresses = m,
                                          !.pending = DOMAIN m,
                                          !.fetchedOk = @ \cup {scan.i}]
    /\ fetched' = [fetched EXCEPT ![scan.i] = @ + 1]
    /\ UNCHANGED <<client, storage, observed, chainFloor, currentBlock, lastProcessedBlock,
                   firstProcessedBlock, subscriptions, data, notifyLog, saveLog,
                   nScans, subscribeRet>>
    /\ UNCHANGED <<cancelled, refresh, shutdown, mu>>

\* the range loop reaches a group: p.notify(address, transactions)
ScanNotify ==
    /\ phase = "running"
    /\ scan.pc = "notify"
    /\ \E address \in scan.pending :
         /\ notifyLog' = [notifyLog EXCEPT ![address] =
                            Append(@, scan.transactionsForAddresses[address])]
         /\ scan' = [scan EXCEPT !.pc = "save", !.address = address]
    /\ UNCHANGED <<client, storage, observed, chainFloor, phase, currentBlock, lastProcessedBlock,
                   firstProcessedBlock, subscriptions, data, saveLog, nScans,
                   fetched, subscribeRet, nFetchErrors>>
    /\ UNCHANGED <<cancelled, refresh, shutdown, mu, failedAt>>

\* the errors SaveTransactions of the Storage in use can return: none from a
\* MemoryStorage
SaveErrors == IF storage = "failing" THEN {FALSE, TRUE} ELSE {FALSE}

\* the range loop returning from fetchTransactions' loops when the append failed
AfterSaveAbort(sc, err) ==
    IF err
    THEN [sc EXCEPT !.pc = "loop", !.i = sc.currentBlock + 1,
                    !.transactionsForAddresses = <<>>,
                    !.pending = {}, !.address = ""]
    ELSE IF sc.pending \ {sc.address} = {}
    THEN [sc EXCEPT !.pc = "loop", !.i = @ + 1,
                    !.transactionsForAddresses = <<>>,
                    !.pending = {}, !.address = ""]
    ELSE [sc EXCEPT !.pc = "notify", !.pending = sc.pending \ {sc.address},
                    !.address = ""]

\* the scan after SaveTransactions returned err: the error is logged, and the
\* range loop goes to the next group, or the loop over heights to the next height
AfterSave(sc, err) ==
    IF sc.pending \ {sc.address} = {}
    THEN [sc EXCEPT !.pc = "loop", !.i = @ + 1,
                    !.transactionsForAddresses = <<>>,
                    !.pending = {}, !.address = ""]
    ELSE [sc EXCEPT !.pc = "notify", !.pending = sc.pending \ {sc.address},
                    !.address = ""]

\* p.storage.SaveTransactions(address, transactions), then the next group or height
ScanSave ==
    /\ phase = "running"
    /\ scan.pc = "save"
    /\ \E err \in SaveErrors :
         LET address == scan.address
             transactions == scan.transactionsForAddresses[address]
         IN  /\ data' = IF err THEN data
                        ELSE SaveTransactions(data, address, transactions)
             /\ saveLog' = [saveLog EXCEPT ![address] = Append(@, transactions)]
             /\ scan' = AfterSave(scan, err)
    /\ UNCHANGED <<client, storage, observed, chainFloor, phase, currentBlock, lastProcessedBlock,
                   firstProcessedBlock, subscriptions, notifyLog, nScans,
                   fetched, subscribeRet, nFetchErrors>>
    /\ UNCHANGED <<cancelled, refresh, shutdown, mu, failedAt>>

\* the loop over heights is over: p.lastProcessedBlock = currentBlock under p.mu
ScanFinish ==
    /\ phase = "running"
    /\ scan.pc = "loop"
    /\ scan.i > scan.currentBlock
    /\ lastProcessedBlock' = PassResult(scan)
    /\ scan' = ScanIdle
    /\ UNCHANGED <<client, storage, observed, chainFloor, phase, currentBlock, firstProcessedBlock,
                   subscriptions, data, notifyLog, saveLog, nScans, fetched,
                   subscribeRet, nFetchErrors>>
    /\ mu = "unlocked"
    /\ mu' = LockSection(mu)
    /\ UNCHANGED <<cancelled, refresh, shutdown, failedAt>>

Next ==
    \/ NewEthParser
    \/ RefreshTick
    \/ \E address \in Addresses : Subscribe(address)
    \/ ScanTick
    \/ ScanFetch
    \/ ScanNotify
    \/ ScanSave
    \/ ScanFinish

Spec == Init /\ [][Next]_vars

(***************************************************************************)
(* Cancellation and shutdown, and the height refresh taken in two steps,    *)
(* the request and its answer.                                             *)
(***************************************************************************)
\* the scan task after its goroutine returned
ScanStopped == [ScanIdle EXCEPT !.pc = "stopped"]

\* the engine's own state and the collaborators' logs stay as they are
EngineUnchanged ==
    UNCHANGED <<client, storage, observed, chainFloor, phase, currentBlock, lastProcessedBlock,
                firstProcessedBlock, subscriptions, data, notifyLog, saveLog,
                nScans, fetched, subscribeRet, nFetchErrors, failedAt>>

\* the select of the refresh task takes ticker.C: updateCurrentBlock sends its
\* request
RefreshRequest ==
    /\ phase = "running"
    /\ refresh = "select"
    /\ refresh' = "request"
    /\ EngineUnchanged
    /\ UNCHANGED <<scan, cancelled, shutdown, mu>>

\* SendRequest returns: the rest of updateCurrentBlock, then back to the select
RefreshReply ==
    /\ phase = "running"
    /\ refresh = "request"
    /\ \E resp \in HeightResponses :
         LET panics == updateCurrentBlockPanics(resp)
             stores == ReachesStore(resp)
         IN  /\ stores => mu = "unlocked"
             /\ phase' = IF panics THEN "crashed" ELSE phase
             /\ currentBlock' = IF panics THEN currentBlock
                                ELSE updateCurrentBlock(currentBlock, resp)
             /\ mu' = IF stores THEN LockSection(mu) ELSE mu
             /\ refresh' = IF panics THEN refresh ELSE "select"
    /\ UNCHANGED <<client, storage, observed, chainFloor, lastProcessedBlock, firstProcessedBlock,
                   subscriptions, data, scan, notifyLog, saveLog, nScans,
                   fetched, subscribeRet, nFetchErrors, cancelled, shutdown,
                   failedAt>>

\* the select of the refresh task takes cancelCtx.Done(): the goroutine returns
RefreshExit ==
    /\ phase = "running"
    /\ refresh = "select"
    /\ cancelled
    /\ refresh' = "stopped"
    /\ EngineUnchanged
    /\ UNCHANGED <<scan, cancelled, shutdown, mu>>

\* the select of the scan task takes cancelCtx.Done(): the goroutine returns
ScanExit ==
    /\ phase = "running"
    /\ AtSelect(scan)
    /\ cancelled
    /\ scan' = ScanStopped
    /\ EngineUnchanged
    /\ UNCHANGED <<cancelled, refresh, shutdown, mu, failedAt>>

\* a tick of the scan task, one of the first MaxLifeScans
LifeScanTick == nScans < MaxLifeScans /\ ScanTick

\* the context handed to NewEthParser is cancelled by its owner
ParentCancel ==
    /\ phase = "running"
    /\ ~cancelled
    /\ cancelled' = TRUE
    /\ EngineUnchanged
    /\ UNCHANGED <<scan, refresh, shutdown, mu>>

\* WaitForShutdown without its call of p.cancel
CancelFuncLost(c) == c

\* p.cancel(): Done is closed, whether it was closed already or not
CancelFunc(c) == TRUE

\* WaitForShutdown up to p.wg.Wait()
WaitForShutdownCancel ==
    /\ phase = "running"
    /\ shutdown.pc = "idle"
    /\ cancelled' = CancelFunc(cancelled)
    /\ shutdown' = [shutdown EXCEPT !.pc = "wait"]
    /\ EngineUnchanged
    /\ UNCHANGED <<scan, refresh, mu>>

\* p.wg.Wait() returning as soon as one of the two tasks is done
WaitGroupOneDone(refreshPc, scanPc) ==
    refreshPc = "stopped" \/ scanPc = "stopped"

\* p.wg.Wait() can return: both tasks ran their deferred p.wg.Done()
WaitGroupDone(refreshPc, scanPc) ==
    refreshPc = "stopped" /\ scanPc = "stopped"

\* p.wg.Wait() returns, and WaitForShutdown with it
WaitForShutdownReturn ==
    /\ phase = "running"
    /\ shutdown.pc = "wait"
    /\ WaitGroupDone(refresh, scan.pc)
    /\ shutdown' = [pc |-> "idle", returned |-> TRUE]
    /\ EngineUnchanged
    /\ UNCHANGED <<scan, cancelled, refresh, mu>>

\* the engine with its tasks cancelled and shut down
LifeNext ==
    \/ NewEthParser
    \/ RefreshTick
    \/ RefreshExit
    \/ \E address \in Addresses : Subscribe(address)
    \/ LifeScanTick
    \/ ScanFetch
    \/ ScanNotify
    \/ ScanSave
    \/ ScanFinish
    \/ ScanExit
    \/ ParentCancel
    \/ WaitForShutdownCancel
    \/ WaitForShutdownReturn

\* every collaborator call returns and the scan goroutine keeps running; a
\* select with Done closed takes Done in the end, whatever the ticker does
LifeFairness ==
    /\ WF_vars(ScanFetch \/ ScanNotify \/ ScanSave \/ ScanFinish)
    /\ SF_vars(RefreshExit)
    /\ SF_vars(ScanExit)
    /\ WF_vars(WaitForShutdownReturn)

\* the engine on the young chain
LifeInit == Init /\ chainFloor = YoungFloor

LifeSpec == LifeInit /\ [][LifeNext]_vars /\ LifeFairness

\* the engine with the Chain Client requests of the refresh task in progress
IONext ==
    \/ NewEthParser
    \/ RefreshRequest
    \/ RefreshReply
    \/ \E address \in Addresses : Subscribe(address)
    \/ LifeScanTick
    \/ ScanFetch
    \/ ScanNotify
    \/ ScanSave
    \/ ScanFinish

IOSpec == LifeInit /\ [][IONext]_vars

\* a tick of the scan task when ticks never stop: the first MaxProgressScans
\* are counted
ProgressScanTick ==
    /\ TakeSnapshot
    /\ nScans' = IF nScans < MaxProgressScans THEN nScans + 1 ELSE nScans
    /\ UNCHANGED observed

\* a tick of the refresh task while the reported height can change
ProgressRefreshTick == nScans < MaxProgressScans /\ RefreshTick

\* the engine on the young chain with a scan task whose ticker never stops
ProgressNext ==
    \/ NewEthParser
    \/ ProgressRefreshTick
    \/ \E address \in Addresses : Subscribe(address)
    \/ ProgressScanTick
    \/ ScanFetch
    \/ ScanNotify
    \/ ScanSave
    \/ ScanFinish

\* the scan goroutine runs on, and its ticker fires again and again
ProgressFairness ==
    /\ WF_vars(ScanFetch \/ ScanNotify \/ ScanSave \/ ScanFinish)
    /\ WF_vars(ProgressScanTick)

ProgressSpec == LifeInit /\ [][ProgressNext]_vars /\ ProgressFairness

\* a call of Subscribe, observed: the first call that returns true for the
\* address records the highest end height of the passes begun so far
ObservedSubscribe(address) ==
    /\ SubscribeCall(address)
    /\ observed' = IF SubscribeResult(subscriptions, address).ret
                   THEN [observed EXCEPT !.since[address] = observed.passEnd]
                   ELSE observed

\* a tick of the scan task, observed: the end height of the pass is recorded
ObservedScanTick ==
    /\ nScans < MaxScans
    /\ TakeSnapshot
    /\ nScans' = nScans + 1
    /\ observed' = [observed EXCEPT
                      !.passEnd = IF EndBlock(currentBlock) > @
                                  THEN EndBlock(currentBlock) ELSE @]

\* the engine on the young chain with an observer of pass ends and
\* subscription times
ObservedNext ==
    \/ NewEthParser
    \/ RefreshTick
    \/ \E address \in Addresses : ObservedSubscribe(address)
    \/ ObservedScanTick
    \/ ScanFetch
    \/ ScanNotify
    \/ ScanSave
    \/ ScanFinish

ObservedSpec == LifeInit /\ [][ObservedNext]_vars

\* the engine on the young chain with a Storage whose SaveTransactions can
\* return an error and then has stored nothing
FailingStoreInit ==
    EngineInit /\ client = "conforming" /\ storage = "failing" /\ chainFloor = YoungFloor

FailingStoreNext ==
    \/ NewEthParser
    \/ RefreshTick
    \/ \E address \in Addresses : Subscribe(address)
    \/ LifeScanTick
    \/ ScanFetch
    \/ ScanNotify
    \/ ScanSave
    \/ ScanFinish

FailingStoreSpec == FailingStoreInit /\ [][FailingStoreNext]_vars

\* the engine on the young chain, behind a Chain Client that may answer with
\* a result of any shape
AnyClientInit ==
    EngineInit /\ client = "arbitrary" /\ storage = "memory" /\ chainFloor = YoungFloor

AnyClientSpec == AnyClientInit /\ [][Next]_vars

(***************************************************************************)
(* Properties.                                                             *)
(***************************************************************************)
Heights == 1..MaxHeight

\* the elements of a sequence
Range(seq) == {seq[k] : k \in 1..Len(seq)}

\* the concatenation of a sequence of lists
RECURSIVE Flatten(_)
Flatten(lists) ==
    IF lists = <<>> THEN <<>> ELSE Head(lists) \o Flatten(Tail(lists))

\* the number of calls of log that carried transactions of height h
CallsAtHeight(log, h) ==
    Cardinality({k \in 1..Len(log) :
                   \E tx \in Range(log[k]) : tx.BlockNumberDecimal = h})

\* C1: in every reachable state after construction, lastProcessedBlock is at
\* most currentBlock, whatever heights the Chain Client reports.
C1_LastProcessedAtMostCurrent ==
    phase = "running" => lastProcessedBlock <= currentBlock

\* C2: lastProcessedBlock never decreases, and the value a scan pass writes is
\* at most the currentBlock that pass read at its start.
C2_LastProcessedMonotone ==
    [][/\ lastProcessedBlock' >= lastProcessedBlock
       /\ (scan.pc = "loop" /\ scan'.pc = "idle")
            => lastProcessedBlock' <= scan.currentBlock]_vars

\* C3: every height is scanned exactly once: no height is fetched by two
\* passes, each pass starts right after the last processed height, and between
\* passes every height above the bootstrap value and at or below
\* lastProcessedBlock has been fetched by some pass.
C3_EveryHeightScannedOnce ==
    /\ \A h \in Heights : fetched[h] <= 1
    /\ scan.pc # "idle" => scan.startBlock = lastProcessedBlock + 1
    /\ scan.pc = "idle" =>
         \A h \in Heights :
            (firstProcessedBlock < h /\ h <= lastProcessedBlock) => fetched[h] >= 1

\* C4: for every address and every height, the Notifier is called at most once
\* and the Store append is made at most once with transactions of that height.
C4_AtMostOncePerBlock ==
    \A a \in AllAddresses : \A h \in Heights :
       /\ CallsAtHeight(notifyLog[a], h) <= 1
       /\ CallsAtHeight(saveLog[a], h) <= 1

\* C5: Subscribe(a) returns true exactly when a is not yet subscribed, and then
\* the set is the old one plus a, one element larger; on a subscribed address
\* it returns false and leaves the set as it is; over all calls so far, exactly
\* one Subscribe(a) returned true for each subscribed a and none for the others.
C5_SubscribeIdempotent ==
    /\ \A a \in Addresses :
         /\ subscribeRet[a] = (IF a \in subscriptions THEN 1 ELSE 0)
         /\ LET r == SubscribeResult(subscriptions, a)
            IN  /\ r.ret = (a \notin subscriptions)
                /\ r.subscriptions = subscriptions \cup {a}
                /\ Cardinality(r.subscriptions) =
                     Cardinality(subscriptions) + (IF r.ret THEN 1 ELSE 0)
                /\ SubscribeResult(r.subscriptions, a) =
                     [ret |-> FALSE, subscriptions |-> r.subscriptions]
    /\ subscriptions \subseteq Addresses

\* C5 witness: both addresses are subscribed, each by exactly one call that
\* returned true
C5_Witness ==
    /\ subscriptions = Addresses
    /\ \A a \in Addresses : subscribeRet[a] = 1

Max0(n) == IF n < 0 THEN 0 ELSE n

\* C6: when construction finishes, lastProcessedBlock is max(0, h - 10) for the
\* height h the construction-time refresh left in currentBlock, and
\* lastProcessedBlock is never negative.
C6_BootstrapLookBack ==
    [][/\ (phase = "new" /\ phase' = "running")
            => lastProcessedBlock' = Max0(currentBlock' - 10)
       /\ lastProcessedBlock' >= 0]_vars

\* C6 witness: construction on the old chain at height 11 has just finished,
\* one block above the look-back
C6_Witness ==
    /\ phase = "running"
    /\ nScans = 0
    /\ currentBlock = 11
    /\ lastProcessedBlock = 1

\* transaction tx has address a as its sender or as its recipient
Touches(tx, a) == tx.From = a \/ tx.To = a

\* the transactions of block h that touch a, with their height filled in
BlockMatches(h, a) ==
    {[tx EXCEPT !.BlockNumberDecimal = h] :
        tx \in {t \in Range(ChainTransactions(h)) : Touches(t, a)}}

\* the place of a stored transaction in its block
PlaceInBlock(tx) ==
    CHOOSE k \in 1..Len(ChainTransactions(tx.BlockNumberDecimal)) :
        ChainTransactions(tx.BlockNumberDecimal)[k].Hash = tx.Hash

\* how many entries of the list txs are the transaction tx
RECURSIVE Occurrences(_, _)
Occurrences(txs, tx) ==
    IF txs = <<>> THEN 0
    ELSE (IF Head(txs) = tx THEN 1 ELSE 0) + Occurrences(Tail(txs), tx)

\* the sides (sender, recipient) on which tx touches a
Sides(tx, a) == (IF tx.From = a THEN 1 ELSE 0) + (IF tx.To = a THEN 1 ELSE 0)

\* the match group of address a for the block in hand
GroupOf(a) ==
    IF a \in DOMAIN scan.transactionsForAddresses
    THEN scan.transactionsForAddresses[a] ELSE <<>>

\* C7: for the fetched block in hand and every address a of the pass's
\* snapshot, the match group of a holds exactly the block's transactions sent
\* or received by a, once for each side on which a appears, in block order,
\* and no other address has a group; every
\* block the pass has fetched and finished has its transactions touching a in
\* Transactions(a): a transaction from X to Y with both subscribed is in both.
C7_PerAddressMatch ==
    /\ scan.pc \in {"notify", "save"} =>
         /\ DOMAIN scan.transactionsForAddresses \subseteq scan.subscribedAddresses
         /\ \A a \in scan.subscribedAddresses :
              /\ Range(GroupOf(a)) = BlockMatches(scan.i, a)
              /\ \A tx \in Range(GroupOf(a)) :
                   Occurrences(GroupOf(a), tx) = Sides(tx, a)
              /\ \A j, k \in 1..Len(GroupOf(a)) :
                   j < k => PlaceInBlock(GroupOf(a)[j]) <= PlaceInBlock(GroupOf(a)[k])
    /\ \A h \in scan.fetchedOk :
         h < scan.i =>
            \A a \in scan.subscribedAddresses : BlockMatches(h, a) \subseteq Range(data[a])

\* C7 witness: a pass with both addresses in its snapshot has finished block 1,
\* and the transaction from 0x1 to 0x2 is stored under both
C7_Witness ==
    /\ scan.pc = "loop"
    /\ scan.subscribedAddresses = {"0x1", "0x2"}
    /\ 1 \in scan.fetchedOk
    /\ scan.i > 1
    /\ \E tx \in Range(data["0x1"]) \cap Range(data["0x2"]) :
         tx.From = "0x1" /\ tx.To = "0x2" /\ tx.BlockNumberDecimal = 1

\* C8: the Notifier and the Store are never called with an empty list, every
\* transaction they are given touches the address it is given for, and a
\* fetched block without a transaction touching the snapshot never reaches the
\* delivery loop.
C8_NoMatchNoDelivery ==
    /\ \A a \in AllAddresses :
         \A txs \in Range(notifyLog[a]) \cup Range(saveLog[a]) :
            txs # <<>> /\ \A tx \in Range(txs) : Touches(tx, a)
    /\ \A a \in DOMAIN scan.transactionsForAddresses :
         scan.transactionsForAddresses[a] # <<>>
    /\ scan.pc \in {"notify", "save"} =>
         \E tx \in Range(ChainTransactions(scan.i)) :
            \E a \in scan.subscribedAddresses : Touches(tx, a)

\* C8 witness: a pass that watches 0x1 alone has fetched block 2, which holds
\* no transaction of 0x1, and nothing was delivered for height 2
C8_Witness ==
    /\ scan.pc = "loop"
    /\ scan.subscribedAddresses = {"0x1"}
    /\ 2 \in scan.fetchedOk
    /\ scan.i = 3
    /\ \A a \in AllAddresses :
         CallsAtHeight(notifyLog[a], 2) = 0 /\ CallsAtHeight(saveLog[a], 2) = 0

\* C9: for every address the stored list is ordered by non-decreasing block
\* height, and transactions of one block keep their order within the block.
C9_StoredInHeightOrder ==
    \A a \in AllAddresses :
       \A j, k \in 1..Len(data[a]) :
          j < k =>
            /\ data[a][j].BlockNumberDecimal <= data[a][k].BlockNumberDecimal
            /\ data[a][j].BlockNumberDecimal = data[a][k].BlockNumberDecimal
                 => PlaceInBlock(data[a][j]) <= PlaceInBlock(data[a][k])

\* C10: whenever no scan pass is in progress, for every address the lists given
\* to the Notifier, concatenated, are the list the Store holds; and a pass
\* whose fetches all succeeded leaves lastProcessedBlock at the end of its window.
C10_NotifiedEqualsStored ==
    [][/\ scan'.pc = "idle" =>
            \A a \in AllAddresses : Flatten(notifyLog'[a]) = data'[a]
       /\ (/\ scan.pc = "loop"
           /\ scan'.pc = "idle"
           /\ scan.fetchedOk = scan.startBlock..scan.currentBlock)
            => lastProcessedBlock' = scan.currentBlock]_vars

\* C10 witness: the scenario of TestEthParser after one pass over heights 1..2
\* with 0x1 and 0x2 subscribed
C10_Witness ==
    /\ scan.pc = "idle"
    /\ nScans = 1
    /\ lastProcessedBlock = 2
    /\ Len(data["0x1"]) = 1 /\ data["0x1"][1].Hash = 16
    /\ Len(data["0x2"]) = 2 /\ data["0x2"][1].Hash = 16 /\ data["0x2"][2].Hash = 32
    /\ \A a \in AllAddresses : Flatten(notifyLog[a]) = data[a]

\* C11: GetTransactions returns the empty list for every address that was
\* never subscribed: the Store holds a non-empty list only for members of the
\* subscription set.
C11_StoreOnlyForSubscribed ==
    \A a \in AllAddresses :
       a \notin subscriptions => GetTransactions(data, a) = <<>>

\* C11 witness: block 2, with its transaction from 0x2 to 0x3, was delivered
\* for the subscribed 0x2, and nothing is stored for 0x3
C11_Witness ==
    /\ "0x3" \notin subscriptions
    /\ \E tx \in Range(GetTransactions(data, "0x2")) :
         tx.BlockNumberDecimal = 2 /\ tx.To = "0x3"
    /\ GetTransactions(data, "0x3") = <<>>

\* C12: WaitForShutdown returns only after both background tasks have exited;
\* from then on currentBlock, lastProcessedBlock and the Store never change,
\* no Chain Client request, notification or Store append is made, and the
\* engine stays constructed with its lock free, so that GetCurrentBlock,
\* Subscribe and GetTransactions still run.
C12_ShutdownQuiesces ==
    [][/\ (shutdown.pc = "wait" /\ shutdown'.pc = "idle")
            => (refresh = "stopped" /\ scan.pc = "stopped")
       /\ shutdown.returned =>
            /\ currentBlock' = currentBlock
            /\ lastProcessedBlock' = lastProcessedBlock
            /\ data' = data
            /\ notifyLog' = notifyLog
            /\ saveLog' = saveLog
            /\ fetched' = fetched
            /\ refresh' = "stopped"
            /\ scan' = ScanStopped
            /\ phase' = "running"
            /\ mu' = "unlocked"]_vars

\* C12 witness: WaitForShutdown has returned after a pass that delivered
\* blocks 1..2, and an address can still be subscribed
C12_Witness ==
    /\ shutdown.returned
    /\ shutdown.pc = "idle"
    /\ lastProcessedBlock = 2
    /\ GetTransactions(data, "0x2") # <<>>
    /\ "0x1" \notin subscriptions

\* C13: once cancellation is signalled both background tasks end, and every
\* call of WaitForShutdown returns, the second as well as the first.
C13_CancellationTerminates ==
    /\ cancelled ~> (refresh = "stopped" /\ scan.pc = "stopped")
    /\ (shutdown.pc = "wait") ~> (shutdown.pc = "idle")

\* C13 witness: a second call of WaitForShutdown is waiting, after the first
\* returned, with both tasks gone
C13_Witness ==
    /\ shutdown.returned
    /\ shutdown.pc = "wait"
    /\ WaitGroupDone(refresh, scan.pc)

\* C14: the value GetCurrentBlock returns never decreases, whatever heights
\* the Chain Client reports to the height-refresh task.
C14_CurrentHeightMonotone ==
    [][GetCurrentBlock(currentBlock') >= GetCurrentBlock(currentBlock)]_vars

\* C15: a block fetch that fails does not end the pass: the pass goes on with
\* the next height, tries every height of its window and writes the end of the
\* window to lastProcessedBlock; a height whose fetch failed is fetched that
\* one time only, by no later pass, and nothing of it is ever delivered.
C15_FailedFetchSkipped ==
    [][/\ failedAt' # failedAt =>
            /\ scan'.pc = "loop"
            /\ scan'.i = scan.i + 1
            /\ scan'.currentBlock = scan.currentBlock
       /\ (scan.pc = "loop" /\ scan'.pc = "idle") =>
            /\ lastProcessedBlock' = scan.currentBlock
            /\ \A h \in scan.startBlock..scan.currentBlock :
                 h \in scan.fetchedOk \cup failedAt
       /\ \A h \in failedAt' :
            /\ fetched'[h] = 1
            /\ \A a \in AllAddresses :
                 /\ CallsAtHeight(notifyLog'[a], h) = 0
                 /\ CallsAtHeight(saveLog'[a], h) = 0]_vars

\* C16: a response of unexpected shape from the Chain Client is skipped like
\* a failed request: whatever a tick of a background task receives, the
\* tasks and the process keep running.
C16_MalformedResponseSkipped ==
    [][phase = "running" => phase' = "running"]_vars

\* the last element of a non-empty sequence
Last(seq) == seq[Len(seq)]

\* C17: within a pass, each match group is given to the Notifier once and then
\* to the Store once, as the same list: a notification is of a group not yet
\* visited, the append that follows it is of the list just notified, there is
\* no append without it, and the block is left only when every group was
\* delivered.
C17_NotifyThenSave ==
    [][/\ \A a \in AllAddresses :
            notifyLog'[a] # notifyLog[a] =>
               /\ scan.pc = "notify"
               /\ a \in scan.pending
               /\ notifyLog'[a] = Append(notifyLog[a], GroupOf(a))
               /\ scan'.pc = "save" /\ scan'.address = a
               /\ \A b \in AllAddresses \ {a} : notifyLog'[b] = notifyLog[b]
               /\ saveLog' = saveLog /\ data' = data
       /\ \A a \in AllAddresses :
            (saveLog'[a] # saveLog[a] \/ data'[a] # data[a]) =>
               /\ scan.pc = "save" /\ scan.address = a
               /\ Len(notifyLog[a]) = Len(saveLog[a]) + 1
               /\ saveLog'[a] = Append(saveLog[a], Last(notifyLog[a]))
               /\ data'[a] = data[a] \o Last(notifyLog[a])
               /\ scan'.pending = scan.pending \ {a}
               /\ notifyLog' = notifyLog
       /\ (scan.pc = "save" /\ scan'.pc = "loop") => scan.pending = {scan.address}
       /\ \A a \in AllAddresses :
            /\ Len(notifyLog'[a]) =
                 Len(saveLog'[a]) + (IF scan'.pc = "save" /\ scan'.address = a
                                     THEN 1 ELSE 0)
            /\ saveLog'[a] = SubSeq(notifyLog'[a], 1, Len(saveLog'[a]))]_vars

\* C17 witness: block 1 gave a group to 0x1 and to 0x2; one was notified and
\* saved, the other is notified and about to be saved
C17_Witness ==
    /\ scan.pc = "save"
    /\ scan.i = 1
    /\ DOMAIN scan.transactionsForAddresses = {"0x1", "0x2"}
    /\ Cardinality(scan.pending) = 1
    /\ Len(notifyLog[scan.address]) = Len(saveLog[scan.address]) + 1
    /\ \E a \in {"0x1", "0x2"} \ {scan.address} :
         Len(notifyLog[a]) = 1 /\ saveLog[a] = notifyLog[a]

\* C18: while a Chain Client request, a notification or a Store append is in
\* progress (the refresh task inside SendRequest, the scan task between its
\* snapshot and its final write) p.mu is not held, so that Subscribe and
\* GetCurrentBlock, which need nothing but p.mu, complete at once.
C18_LockFreeDuringIO ==
    (refresh = "request" \/ scan.pc \in {"loop", "notify", "save"}) =>
       /\ mu = "unlocked"
       /\ phase = "running"
       /\ \A a \in Addresses : ENABLED Subscribe(a)

\* C18 witness: the refresh task is inside its request and the scan task is
\* about to append to the Store, and a Subscribe has completed since the pass
\* took its snapshot
C18_Witness ==
    /\ refresh = "request"
    /\ scan.pc = "save"
    /\ subscriptions # scan.subscribedAddresses

\* C19: a pass writes to lastProcessedBlock the end E of the window it captured
\* at its start, whatever currentBlock has become meanwhile; the next pass
\* starts at E + 1 and runs to the currentBlock in force at its tick, and a
\* pass tries every height of its window in turn, so that no height between
\* E + 1 and that currentBlock is skipped.
C19_PassWritesCapturedEnd ==
    [][/\ (scan.pc = "loop" /\ scan'.pc = "idle") =>
            /\ lastProcessedBlock' = scan.currentBlock
            /\ scan.i > scan.currentBlock
       /\ (scan.pc = "idle" /\ scan'.pc = "loop") =>
            /\ scan'.startBlock = lastProcessedBlock + 1
            /\ scan'.i = scan'.startBlock
            /\ scan'.currentBlock = currentBlock
       /\ scan'.pc \in {"loop", "notify", "save"} =>
            /\ scan'.startBlock = lastProcessedBlock' + 1
            /\ \A h \in scan'.startBlock..(scan'.i - 1) :
                 h \in scan'.fetchedOk \cup failedAt']_vars

\* C19 witness: the first pass ended at height 1 and the second pass, started
\* after currentBlock had become 2, has scanned height 2
C19_Witness ==
    /\ nScans = 2
    /\ firstProcessedBlock = 0
    /\ scan.pc = "loop"
    /\ scan.startBlock = 2
    /\ scan.currentBlock = 2
    /\ fetched[1] = 1
    /\ 2 \in scan.fetchedOk

\* C20: a pass matches against the copy of the subscription set it took at its
\* start: the copy stays as taken while the pass runs, only addresses of the
\* copy get a group, a notification or a Store append from the pass, and a
\* Subscribe during the pass finds p.mu free and leaves the pass as it is.
C20_PassUsesItsSnapshot ==
    [][/\ (scan.pc = "idle" /\ scan'.pc = "loop") =>
            scan'.subscribedAddresses = subscriptions
       /\ (scan.pc # "idle" /\ scan'.pc # "idle") =>
            scan'.subscribedAddresses = scan.subscribedAddresses
       /\ DOMAIN scan'.transactionsForAddresses \subseteq scan'.subscribedAddresses
       /\ \A a \in AllAddresses :
            (\/ notifyLog'[a] # notifyLog[a]
             \/ saveLog'[a] # saveLog[a]
             \/ data'[a] # data[a]) => a \in scan.subscribedAddresses
       /\ subscriptions' # subscriptions =>
            /\ scan' = scan
            /\ notifyLog' = notifyLog /\ saveLog' = saveLog /\ data' = data
       /\ scan.pc \in {"loop", "notify", "save"} => mu = "unlocked"]_vars

\* C20 witness: the pass took its snapshot with 0x1 alone; 0x2 is subscribed
\* now, blocks 1 and 2, both with a transaction of 0x2, are done, and 0x2 got
\* nothing
C20_Witness ==
    /\ nScans = 1
    /\ scan.pc = "loop"
    /\ scan.subscribedAddresses = {"0x1"}
    /\ subscriptions = {"0x1", "0x2"}
    /\ {1, 2} \subseteq scan.fetchedOk
    /\ notifyLog["0x1"] # <<>>
    /\ notifyLog["0x2"] = <<>>
    /\ GetTransactions(data, "0x2") = <<>>

\* C21: a tick of the scan task that finds startBlock above its end height
\* does nothing: from its snapshot to its return no block is fetched, nothing
\* is notified or stored, and its own steps leave lastProcessedBlock,
\* currentBlock and the subscription set as they were.
C21_EmptyWindowTickDoesNothing ==
    [][/\ (scan'.pc # "idle" /\ scan'.startBlock > scan'.currentBlock) =>
            /\ fetched' = fetched
            /\ notifyLog' = notifyLog /\ saveLog' = saveLog /\ data' = data
       /\ (scan' # scan /\ (\/ (scan'.pc = "loop"
                                /\ scan'.startBlock > scan'.currentBlock)
                            \/ (scan.pc = "loop"
                                /\ scan.startBlock > scan.currentBlock))) =>
            /\ fetched' = fetched
            /\ notifyLog' = notifyLog /\ saveLog' = saveLog /\ data' = data
            /\ lastProcessedBlock' = lastProcessedBlock
            /\ currentBlock' = currentBlock
            /\ subscriptions' = subscriptions]_vars

\* C22: the first scan pass starts at firstProcessedBlock + 1, the value
\* construction left, and that start is at least max(0, h - 10) + 1 for the
\* first height h the engine obtains: the step on which currentBlock leaves its
\* zero value for h finds firstProcessedBlock + 1 at or above that bound.  (On
\* a chain that reports height 0 a later step from 0 to h is included; the
\* bound is 1 there.)
C22_FirstPassWindowBounded ==
    [][/\ (nScans = 0 /\ nScans' = 1) =>
            /\ scan'.startBlock = firstProcessedBlock + 1
            /\ scan'.startBlock >= 1
       /\ (phase = "running" /\ nScans = 0) =>
            lastProcessedBlock = firstProcessedBlock
       /\ (currentBlock = 0 /\ currentBlock' # 0) =>
            firstProcessedBlock' + 1 >= Max0(currentBlock' - 10) + 1]_vars

\* C23: a height request that fails changes nothing: for every failing answer
\* updateCurrentBlock neither panics nor reaches its lock section and leaves
\* currentBlock as it is; the step on which the refresh task gets its answer
\* never touches lastProcessedBlock or the subscription set, changes
\* currentBlock only to what updateCurrentBlock gives for some answer, leaves
\* the task at its select, and from its select the task can send a request
\* again.
C23_FailedHeightRequestChangesNothing ==
    [][/\ \A resp \in HeightResponses :
            resp.err => /\ ~updateCurrentBlockPanics(resp)
                        /\ ~ReachesStore(resp)
                        /\ updateCurrentBlock(currentBlock, resp) = currentBlock
       /\ (refresh = "request" /\ refresh' # "request") =>
            /\ refresh' = "select"
            /\ phase' = "running"
            /\ lastProcessedBlock' = lastProcessedBlock
            /\ subscriptions' = subscriptions
            /\ \E resp \in HeightResponses :
                 currentBlock' = updateCurrentBlock(currentBlock, resp)
       /\ (phase = "running" /\ refresh = "select") => ENABLED RefreshRequest]_vars

\* C23 witness: a height request is in flight while currentBlock is 2, a pass
\* has been made and an address is subscribed, so that a failing answer has
\* state it could change
C23_Witness ==
    /\ refresh = "request"
    /\ currentBlock = 2
    /\ lastProcessedBlock = 1
    /\ subscriptions # {}
    /\ nScans = 1
    /\ scan.pc = "idle"

\* C24: whatever SaveTransactions returns, the pass goes on: the step of the
\* append, failed or not, logs the call, leaves the Notifier log as it is,
\* keeps the remaining groups of the block pending and moves to the next group
\* or the next height; only a pending group is notified, each notification is
\* an append to the Notifier log; and the pass ends only after its last height,
\* writing its end height to lastProcessedBlock.
C24_FailedAppendDoesNotStopPass ==
    [][/\ (scan.pc = "save" /\ scan' # scan) =>
            LET address == scan.address
                transactions == scan.transactionsForAddresses[address]
                rest == scan.pending \ {address}
            IN  /\ saveLog'[address] = Append(saveLog[address], transactions)
                /\ data' \in {data, SaveTransactions(data, address, transactions)}
                /\ notifyLog' = notifyLog
                /\ phase' = "running"
                /\ lastProcessedBlock' = lastProcessedBlock
                /\ scan'.currentBlock = scan.currentBlock
                /\ scan'.subscribedAddresses = scan.subscribedAddresses
                /\ IF rest = {}
                   THEN scan'.pc = "loop" /\ scan'.i = scan.i + 1
                   ELSE /\ scan'.pc = "notify" /\ scan'.i = scan.i
                        /\ scan'.pending = rest
                        /\ scan'.transactionsForAddresses =
                             scan.transactionsForAddresses
       /\ \A a \in AllAddresses :
            notifyLog'[a] # notifyLog[a] =>
               /\ scan.pc = "notify" /\ a \in scan.pending
               /\ notifyLog'[a] = Append(notifyLog[a],
                                         scan.transactionsForAddresses[a])
               /\ scan'.pc = "save" /\ scan'.address = a
       /\ (scan.pc # "idle" /\ scan'.pc = "idle") =>
            /\ scan.pc = "loop"
            /\ scan.i > scan.currentBlock
            /\ lastProcessedBlock' = scan.currentBlock]_vars

\* C24 witness: in a pass over blocks 1 and 2 the append for 0x2 of block 1
\* failed; the append for 0x1 of block 1 and the append for 0x2 of block 2 were
\* made, 0x2 was notified once per block, and the pass has written 2
C24_Witness ==
    /\ nScans = 1
    /\ scan.pc = "idle"
    /\ lastProcessedBlock = 2
    /\ Len(notifyLog["0x2"]) = 2
    /\ Len(saveLog["0x2"]) = 2
    /\ Len(saveLog["0x1"]) = 1
    /\ GetTransactions(data, "0x2") = saveLog["0x2"][2]
    /\ GetTransactions(data, "0x1") = saveLog["0x1"][1]

\* C25: after construction each field has one writer: a step that changes
\* currentBlock changes nothing of the scan, the subscription set, the Store
\* or the Notifier log; lastProcessedBlock changes only on the step that ends
\* a pass; a step of the scan changes neither currentBlock nor the
\* subscription set, and the Store and the logs change only on steps of the
\* scan; a step that changes the subscription set changes nothing else of the
\* engine; and the subscription set never loses a member.
C25_SingleWriter ==
    [][phase = "running" =>
         /\ currentBlock' # currentBlock =>
              /\ lastProcessedBlock' = lastProcessedBlock
              /\ subscriptions' = subscriptions
              /\ scan' = scan
         /\ lastProcessedBlock' # lastProcessedBlock =>
              (scan.pc = "loop" /\ scan'.pc = "idle")
         /\ scan' # scan =>
              /\ currentBlock' = currentBlock
              /\ subscriptions' = subscriptions
         /\ (data' # data \/ notifyLog' # notifyLog \/ saveLog' # saveLog
               \/ fetched' # fetched) => scan' # scan
         /\ subscriptions' # subscriptions =>
              /\ currentBlock' = currentBlock
              /\ lastProcessedBlock' = lastProcessedBlock
              /\ scan' = scan
              /\ \E a \in Addresses : subscriptions' = subscriptions \cup {a}
         /\ subscriptions \subseteq subscriptions']_vars

\* C25 witness: each writer has written: construction at height 1, a pass that
\* wrote lastProcessedBlock = 1, a refresh to height 2, and both addresses
\* subscribed one after the other
C25_Witness ==
    /\ phase = "running"
    /\ firstProcessedBlock = 0
    /\ lastProcessedBlock = 1
    /\ currentBlock = 2
    /\ nScans = 1
    /\ scan.pc = "idle"
    /\ subscriptions = Addresses

\* C26: with a scan task that keeps getting ticks, every height that
\* currentBlock holds at some time is covered later: lastProcessedBlock is
\* eventually at or above it.
C26_EveryHeightCovered ==
    \A h \in 1..(YoungFloor + MaxAdvance) :
       (phase = "running" /\ currentBlock = h) ~> (lastProcessedBlock >= h)

\* C27: passes follow one another: a pass begins only when the scan task is
\* at its select, with no pass in progress; while a pass is in progress its
\* window and its copy of the subscriptions are never replaced; a pass stops
\* being in progress only by its write of lastProcessedBlock; and in every
\* state of a pass in progress p.mu is free and the refresh task is at its
\* select, so that a refresh tick and a Subscribe call can take their step: the
\* steps taken during a pass by others than the pass are theirs.
C27_PassesSerialized ==
    [][/\ nScans' # nScans =>
            /\ nScans' = nScans + 1
            /\ scan.pc = "idle"
            /\ scan'.pc = "loop"
       /\ (scan.pc # "idle" /\ scan'.pc # "idle") =>
            /\ nScans' = nScans
            /\ scan'.startBlock = scan.startBlock
            /\ scan'.currentBlock = scan.currentBlock
            /\ scan'.subscribedAddresses = scan.subscribedAddresses
            /\ scan'.i >= scan.i
       /\ (scan.pc # "idle" /\ scan'.pc = "idle") =>
            /\ scan.pc = "loop"
            /\ scan.i > scan.currentBlock
            /\ lastProcessedBlock' = scan.currentBlock
       /\ scan.pc \in {"loop", "notify", "save"} =>
            /\ mu = "unlocked"
            /\ phase = "running"
            /\ refresh = "select"
       /\ (scan.pc # "idle" /\ scan' = scan) =>
            \/ currentBlock' # currentBlock
            \/ subscriptions' # subscriptions]_vars

\* C27 witness: the second pass is in progress, between a notification and its
\* append; since its snapshot the height was refreshed and an address subscribed
C27_Witness ==
    /\ nScans = 2
    /\ scan.pc = "save"
    /\ currentBlock # scan.currentBlock
    /\ subscriptions # scan.subscribedAddresses
    /\ lastProcessedBlock = scan.startBlock - 1

\* C28: an address gets nothing of the heights that passes begun before its
\* subscription cover: no list passed to the Notifier or to the Store for
\* address a holds a transaction of a height at or below the highest end
\* height of the passes that had taken their snapshot when Subscribe(a)
\* returned true.
C28_NoBackfill ==
    \A a \in Addresses :
       \A k \in 1..Len(notifyLog[a]) :
          \A tx \in Range(notifyLog[a][k]) \cup
                    (IF k <= Len(saveLog[a]) THEN Range(saveLog[a][k]) ELSE {}) :
             tx.BlockNumberDecimal > observed.since[a]

\* the number of lists of log that hold the transaction tx
CallsWith(log, tx) == Cardinality({k \in 1..Len(log) : tx \in Range(log[k])})

\* C29: a transaction whose sender and recipient are the same subscribed
\* address is twice in that address's match group of the block; every list
\* the Notifier or the Store is given for the address holds such a transaction
\* twice, as many lists were stored as were notified once the append is made,
\* and Transactions(a) holds it twice for each append.
C29_SelfTransferTwice ==
    \A a \in Addresses :
       /\ \A txs \in {GroupOf(a)} \cup Range(notifyLog[a]) \cup Range(saveLog[a]) :
            \A tx \in Range(txs) :
               (tx.From = a /\ tx.To = a) => Occurrences(txs, tx) = 2
       /\ (scan.pc \in {"notify", "save"} /\ a \in scan.subscribedAddresses) =>
            \A tx0 \in Range(ChainTransactions(scan.i)) :
               (tx0.From = a /\ tx0.To = a) =>
                  Occurrences(GroupOf(a),
                              [tx0 EXCEPT !.BlockNumberDecimal = scan.i]) = 2
       /\ \A tx \in Range(GetTransactions(data, a)) :
            (tx.From = a /\ tx.To = a) =>
               /\ Occurrences(GetTransactions(data, a), tx) = 2 * CallsWith(saveLog[a], tx)
               /\ CallsWith(notifyLog[a], tx) = CallsWith(saveLog[a], tx)
                    + (IF scan.pc = "save" /\ scan.address = a
                          /\ tx \in Range(GroupOf(a)) THEN 1 ELSE 0)

\* C29 witness: the self-transfer of 0x1 in block 3 was notified in one list
\* and stored by one append, each carrying it twice
C29_Witness ==
    \E tx \in Range(GetTransactions(data, "0x1")) :
       /\ tx.From = "0x1" /\ tx.To = "0x1" /\ tx.BlockNumberDecimal = 3
       /\ Occurrences(GetTransactions(data, "0x1"), tx) = 2
       /\ CallsWith(notifyLog["0x1"], tx) = 1
       /\ CallsWith(saveLog["0x1"], tx) = 1
       /\ scan.i > 3

\* C30: the scan task sees the cancellation only at its select: it returns
\* only from there, never out of a pass; a pass in progress, cancelled or not,
\* goes from height to height, each fetched or failed, and stops being in
\* progress only past its last height with the write of its end height;
\* WaitForShutdown returns only after the scan task has returned; and a pass in
\* progress when the cancellation is signalled does get back to the select,
\* which it reaches by that write alone.
C30_CancellationBetweenTicks ==
    /\ [][/\ (scan.pc # "stopped" /\ scan'.pc = "stopped") => scan.pc = "idle"
          /\ (scan.pc \in {"loop", "notify", "save"}
                /\ scan'.pc \notin {"loop", "notify", "save"}) =>
               /\ scan.pc = "loop"
               /\ scan.i > scan.currentBlock
               /\ scan'.pc = "idle"
               /\ lastProcessedBlock' = scan.currentBlock
               /\ \A h \in scan.startBlock..scan.currentBlock :
                    h \in scan.fetchedOk \cup failedAt
          /\ (scan.pc \in {"loop", "notify", "save"}
                /\ scan'.pc \in {"loop", "notify", "save"}) =>
               /\ scan'.currentBlock = scan.currentBlock
               /\ scan'.i \in {scan.i, scan.i + 1}
               /\ scan'.i > scan.i =>
                    scan.i \in scan'.fetchedOk \cup failedAt'
          /\ (shutdown.pc = "wait" /\ shutdown'.pc = "idle") =>
               scan.pc = "stopped"]_vars
    /\ (cancelled /\ scan.pc \in {"loop", "notify", "save"}) ~> (scan.pc = "idle")

\* C30 witness: WaitForShutdown has signalled the cancellation and waits; the
\* pass over 1..2 is in progress with block 1 behind it and block 2 still to
\* fetch
C30_Witness ==
    /\ cancelled
    /\ shutdown.pc = "wait"
    /\ scan.pc = "loop"
    /\ scan.startBlock = 1
    /\ scan.currentBlock = 2
    /\ scan.i = 2
    /\ 1 \in scan.fetchedOk
    /\ fetched[2] = 0

====
